---- MODULE Spec2Model ----
(***************************************************************************)
(* Model of the AdvancedFaceRecognition engine of                          *)
(* src/advanced_face_recognition.py: the embedding store (load_encodings), *)
(* the threshold calibration (auto_calibrate), the quality heuristic       *)
(* (assess_image_quality), the matching decision (recognize_faces) and the *)
(* latency-driven detector selection (adaptive_model_selection).           *)
(*                                                                         *)
(* Real numbers are fixed-point integers in thousandths: a distance of 0.4 *)
(* is 400, a latency of 0.5 s is 500.  An embedding is a vector of Dim     *)
(* integer coordinates in the same unit.                                   *)
(***************************************************************************)
EXTENDS Integers, Sequences, FiniteSets, TLC

VARIABLES
    encodings_file,           \* json_data/encodings.json: NoFile or roll -> list of embeddings
    students_file,            \* json_data/students.json:  NoFile or roll -> student record
    model_metadata_file,      \* model_metadata.json: NoFile or the record of the last enrolment
    known_encodings,          \* self.known_encodings
    known_names,              \* self.known_names
    known_rolls,              \* self.known_rolls
    known_metadata,           \* self.known_metadata
    face_distance_threshold,  \* self.face_distance_threshold
    confidence_threshold,     \* self.confidence_threshold
    current_model,            \* self.current_model
    recognition_stats,        \* self.recognition_stats
    calibration_file,         \* calibration_data/auto_calibration.json: NoFile or the record
    call,                     \* the last call made on the engine, with its arguments
    ret,                      \* what that call returned
    logged,                   \* the messages that call sent to self.logger
    calibrating,              \* a thread inside auto_calibrate, at lines 203-215
    matching,                 \* a thread inside recognize_faces, at the test of line 356
    attendance,               \* recognize.py: the lists of the AttendanceRecognition window
    refresh,                  \* recognize.py: the GUI thread inside load_encodings
    loop,                     \* recognize.py: the thread of recognition_loop
    is_running,               \* recognize.py: self.is_running
    camera,                   \* recognize.py: self.camera, None or a VideoCapture
    today_attendance,         \* recognize.py: self.today_attendance, roll -> record
    attendance_file,          \* attendance/<today>.json: NoFile or roll -> record
    workers,                  \* recognize.py: the threads start_recognition has started
    reading,                  \* recognize.py: the GUI thread inside load_today_attendance
    now                       \* the time of day datetime.now() gives

vars == <<encodings_file, students_file, model_metadata_file, known_encodings, known_names, known_rolls,
          known_metadata, face_distance_threshold, confidence_threshold, current_model,
          recognition_stats, calibration_file, call, ret, logged, calibrating, matching,
          attendance, refresh,
          loop, is_running, camera, today_attendance, attendance_file, workers, reading,
          now>>

store == <<known_encodings, known_names, known_rolls, known_metadata>>
thresholds == <<face_distance_threshold, confidence_threshold>>
threads == <<calibrating, matching>>
disk == <<encodings_file, students_file, model_metadata_file>>
desk == <<is_running, camera, today_attendance, attendance_file, workers, reading, now>>
recognizer == <<attendance, refresh, loop, desk>>

-----------------------------------------------------------------------------
(* Bounds of the model *)

\* length of an embedding vector
Dim == 2
\* recognize_faces calls explored from a freshly constructed engine
MaxAttempts == 1
\* latency samples explored by the detector-selection specification
MaxSamples == 13
\* recognition threads started in the attendance window
MaxWorkers == 2
\* ticks of the clock while the attendance window is open
MaxTime == 1

-----------------------------------------------------------------------------
(* Program constants *)

DefaultDistanceThreshold == 400
DefaultConfidenceThreshold == 650
quality_threshold == 700
MinThreshold == 300
MaxThreshold == 600
ConfidenceMargin == 100
One == 1000
DefaultStd == 100
MinCalibrationEncodings == 5
AutoCalibrateEncodings == 10
Infinity == 1000000000
CheckpointPeriod == 100
MinTimes == 10
WindowSize == 10
SlowTime == 500
FastTime == 200
min_face_size == 50
max_face_size == 500
blur_threshold == 100
brightness_low == 50
brightness_high == 200

\* a file that does not exist, and a file holding data
NoFile == [exists |-> FALSE]
File(data) == [exists |-> TRUE, data |-> data]
None == "None"

-----------------------------------------------------------------------------
(* Arithmetic *)

Min(a, b) == IF a <= b THEN a ELSE b
Max(a, b) == IF a >= b THEN a ELSE b

RECURSIVE SqrtBound(_, _)
\* a power of 4 whose square exceeds n
SqrtBound(n, b) == IF b * b > n THEN b ELSE SqrtBound(n, 4 * b)

RECURSIVE SqrtFrom(_, _)
\* Newton's iteration down from x, a value above the root of n >= 1: the largest r
\* with r*r <= n
SqrtFrom(n, x) ==
    IF (x + n \div x) \div 2 >= x THEN x ELSE SqrtFrom(n, (x + n \div x) \div 2)

\* square root, rounded down to the unit
Sqrt(n) == IF n <= 0 THEN 0 ELSE SqrtFrom(n, SqrtBound(n, 1))

RECURSIVE SumSeq(_)
SumSeq(s) == IF s = <<>> THEN 0 ELSE Head(s) + SumSeq(Tail(s))

\* statistics.mean
Mean(s) == SumSeq(s) \div Len(s)

RECURSIVE SumSquaredDeviations(_, _, _)
\* the sum of (n*x - total)^2 over the elements x of s
SumSquaredDeviations(s, n, total) ==
    IF s = <<>> THEN 0
    ELSE (n * Head(s) - total) * (n * Head(s) - total)
         + SumSquaredDeviations(Tail(s), n, total)

\* statistics.stdev: the sample standard deviation sqrt(sum (x - mean)^2 / (n - 1)),
\* computed on n*x - sum so that the mean is not rounded first
Stdev(s) ==
    Sqrt(SumSquaredDeviations(s, Len(s), SumSeq(s)) \div (Len(s) * Len(s) * (Len(s) - 1)))

RECURSIVE SquaredNorm(_, _, _)
\* the sum of the squares of the coordinates i.. of a - b
SquaredNorm(a, b, i) ==
    IF i > Len(a) THEN 0
    ELSE (a[i] - b[i]) * (a[i] - b[i]) + SquaredNorm(a, b, i + 1)

\* face_recognition.face_distance for one pair: the Euclidean norm of a - b
Distance(a, b) == Sqrt(SquaredNorm(a, b, 1))

RECURSIVE FaceDistances(_, _)
\* face_recognition.face_distance(known, q): one distance per stored embedding
FaceDistances(known, q) ==
    IF known = <<>> THEN <<>>
    ELSE <<Distance(Head(known), q)>> \o FaceDistances(Tail(known), q)

\* np.argmax in the place of np.argmin: the first index of the largest element
ArgMax(d) ==
    CHOOSE i \in 1..Len(d) :
        /\ \A j \in 1..Len(d) : d[i] >= d[j]
        /\ \A j \in 1..(i - 1) : d[j] < d[i]

\* np.argmin: the first index of the smallest element
ArgMin(d) ==
    CHOOSE i \in 1..Len(d) :
        /\ \A j \in 1..Len(d) : d[i] <= d[j]
        /\ \A j \in 1..(i - 1) : d[j] > d[i]

-----------------------------------------------------------------------------
(* The embedding store: load_encodings *)

\* dict.get(key, default) on a student record
Get(info, key, default) == IF key \in DOMAIN info THEN info[key] ELSE default

\* the rolls of encodings.json that students.json knows, in file order
KnownEntries(enc, stu) == SelectSeq(enc, LAMBDA e : e.roll \in DOMAIN stu)

\* student_info['name'] raises KeyError for a record without a name
LoadRaises(enc, stu) ==
    \E k \in 1..Len(enc) :
        /\ enc[k].roll \in DOMAIN stu
        /\ Len(enc[k].encodings) > 0
        /\ "name" \notin DOMAIN stu[enc[k].roll]

RECURSIVE LoadedEncodings(_)
\* the embeddings appended by the two loops, in order
LoadedEncodings(entries) ==
    IF entries = <<>> THEN <<>>
    ELSE Head(entries).encodings \o LoadedEncodings(Tail(entries))

RECURSIVE LoadedRolls(_)
LoadedRolls(entries) ==
    IF entries = <<>> THEN <<>>
    ELSE [i \in 1..Len(Head(entries).encodings) |-> Head(entries).roll]
         \o LoadedRolls(Tail(entries))

RECURSIVE LoadedNames(_, _)
LoadedNames(entries, stu) ==
    IF entries = <<>> THEN <<>>
    ELSE [i \in 1..Len(Head(entries).encodings) |-> stu[Head(entries).roll]["name"]]
         \o LoadedNames(Tail(entries), stu)

RECURSIVE LoadedMetadata(_, _)
LoadedMetadata(entries, stu) ==
    IF entries = <<>> THEN <<>>
    ELSE LET info == stu[Head(entries).roll]
         IN  [i \in 1..Len(Head(entries).encodings) |->
                 [registration_date |-> Get(info, "registration_date", "unknown"),
                  role |-> Get(info, "role", "student"),
                  encoding_index |-> i - 1]]
             \o LoadedMetadata(Tail(entries), stu)

-----------------------------------------------------------------------------
(* The calibrator: auto_calibrate *)

\* the index pairs (i, j) with i < j, in the order of the nested loops
IndexPairs(n) ==
    SelectSeq([k \in 1..(n * n) |-> <<((k - 1) \div n) + 1, ((k - 1) % n) + 1>>],
              LAMBDA p : p[1] < p[2])

\* the position of entry i within its person's list, person_encodings[roll]
Rank(rolls, i) == Cardinality({k \in 1..i : rolls[k] = rolls[i]})

\* the pairs of entries of one person: the intra-class comparisons
IntraPairs(rolls) ==
    SelectSeq(IndexPairs(Len(rolls)), LAMBDA p : rolls[p[1]] = rolls[p[2]])

\* the pairs of entries of two persons, each among its person's first two ([:2])
InterPairs(rolls) ==
    SelectSeq(IndexPairs(Len(rolls)),
              LAMBDA p : /\ rolls[p[1]] # rolls[p[2]]
                         /\ Rank(rolls, p[1]) <= 2
                         /\ Rank(rolls, p[2]) <= 2)

RECURSIVE PairDistances(_, _)
\* the distances of a list of pairs, one per pair
PairDistances(encs, pairs) ==
    IF pairs = <<>> THEN <<>>
    ELSE <<Distance(encs[Head(pairs)[1]], encs[Head(pairs)[2]])>>
         \o PairDistances(encs, Tail(pairs))

intra_class_distances(encs, rolls) == PairDistances(encs, IntraPairs(rolls))
inter_class_distances(encs, rolls) == PairDistances(encs, InterPairs(rolls))

\* avg_intra + 2 * std_intra, with std_intra = 0.1 for a single distance
optimal_threshold(intra) ==
    Mean(intra) + 2 * (IF Len(intra) > 1 THEN Stdev(intra) ELSE DefaultStd)

\* max(0.3, optimal_threshold): the clamp without its upper bound
ClampBelow(x) == Max(MinThreshold, x)

\* max(0.3, min(0.6, optimal_threshold))
Clamp(x) == Max(MinThreshold, Min(MaxThreshold, x))

\* 1.0 - self.face_distance_threshold + 0.1: the margin with the wrong sign
ConfidenceAboveMargin(fdt) == One - fdt + ConfidenceMargin

\* 1.0 - self.face_distance_threshold - 0.1
CalibratedConfidence(fdt) == One - fdt - ConfidenceMargin

\* a guard that only asks for a pair of embeddings
EnoughForAPair(encs) == Len(encs) >= 2

\* whether auto_calibrate has enough embeddings to start
EnoughData(encs) == Len(encs) >= MinCalibrationEncodings

\* the record save_calibration_results writes, without its timestamp
CalibrationRecord(fdt, ct, model, encs, rolls) ==
    [face_distance_threshold |-> fdt,
     confidence_threshold |-> ct,
     quality_threshold |-> quality_threshold,
     face_detection_model |-> model,
     calibration_stats |->
         [encodings_used |-> Len(encs),
          unique_persons |-> Cardinality({rolls[i] : i \in 1..Len(rolls)})]]

\* lines 203-215: the two assignments, then save_calibration_results, which keeps the
\* old file when the write fails
Calibrated(new_fdt, new_ct, model, encs, rolls, file, write_ok) ==
    [fdt |-> new_fdt,
     ct |-> new_ct,
     file |-> IF write_ok THEN File(CalibrationRecord(new_fdt, new_ct, model, encs, rolls))
                          ELSE file,
     log |-> <<<<"Starting automatic calibration">>, <<"Auto-calibration complete">>,
               IF write_ok THEN <<"Calibration results saved">>
                           ELSE <<"Failed to save calibration results">>>>]

\* self.face_distance_threshold, as assigned at line 203
NewDistanceThreshold(intra) == Clamp(optimal_threshold(intra))

\* a calibration that sets the threshold half-way between the two distributions
CalibrationBetweenClasses(intra, inter, fdt, ct, model, encs, rolls, file, write_ok) ==
    IF intra # <<>> /\ inter # <<>>
    THEN Calibrated(Clamp((Mean(intra) + Mean(inter)) \div 2),
                    CalibratedConfidence(Clamp((Mean(intra) + Mean(inter)) \div 2)),
                    model, encs, rolls, file, write_ok)
    ELSE [fdt |-> fdt, ct |-> ct, file |-> file,
          log |-> <<<<"Starting automatic calibration">>>>]

\* a calibration that only asks for intra-class distances
CalibrationFromIntra(intra, inter, fdt, ct, model, encs, rolls, file, write_ok) ==
    IF intra # <<>>
    THEN Calibrated(NewDistanceThreshold(intra),
                    CalibratedConfidence(NewDistanceThreshold(intra)),
                    model, encs, rolls, file, write_ok)
    ELSE [fdt |-> fdt, ct |-> ct, file |-> file,
          log |-> <<<<"Starting automatic calibration">>>>]

\* lines 193-215: nothing happens unless both distance lists are non-empty
CalibrationFrom(intra, inter, fdt, ct, model, encs, rolls, file, write_ok) ==
    IF intra # <<>> /\ inter # <<>>
    THEN Calibrated(NewDistanceThreshold(intra),
                    CalibratedConfidence(NewDistanceThreshold(intra)),
                    model, encs, rolls, file, write_ok)
    ELSE [fdt |-> fdt, ct |-> ct, file |-> file,
          log |-> <<<<"Starting automatic calibration">>>>]

\* the effect of auto_calibrate on the thresholds, the calibration file and the log,
\* on a store (encs, rolls); write_ok tells whether the file can be written
CalibrationEffect(encs, rolls, fdt, ct, model, file, write_ok) ==
    IF ~EnoughData(encs)
    THEN [fdt |-> fdt, ct |-> ct, file |-> file,
          log |-> <<<<"Starting automatic calibration">>,
                    <<"Insufficient data for auto-calibration">>>>]
    ELSE CalibrationFrom(intra_class_distances(encs, rolls),
                         inter_class_distances(encs, rolls),
                         fdt, ct, model, encs, rolls, file, write_ok)

-----------------------------------------------------------------------------
(* The quality assessor: assess_image_quality *)

\* A region is what the frame holds under a bounding box: its width and height in
\* pixels, the variance of its Laplacian and its mean grey level.
size_score(region) ==
    IF region.width < min_face_size \/ region.height < min_face_size THEN 300
    ELSE IF region.width > max_face_size \/ region.height > max_face_size THEN 700
    ELSE One

blur_score(region) == Min(One, (region.sharpness * One) \div blur_threshold)

brightness_score(region) ==
    IF region.brightness < brightness_low THEN 400
    ELSE IF region.brightness > brightness_high THEN 600
    ELSE One

orientation_score(region) == One

QualityIssues(region) ==
    (IF region.width < min_face_size \/ region.height < min_face_size
        THEN <<"Face too small">>
     ELSE IF region.width > max_face_size \/ region.height > max_face_size
        THEN <<"Face too large">>
     ELSE <<>>)
    \o (IF 2 * region.sharpness < blur_threshold THEN <<"Image too blurry">> ELSE <<>>)
    \o (IF region.brightness < brightness_low THEN <<"Image too dark">>
        ELSE IF region.brightness > brightness_high THEN <<"Image too bright">>
        ELSE <<>>)

\* the metrics computed of any region, an empty one included
AssessedWithoutEmptyCheck(region) ==
    [overall_score |->
         (size_score(region) * 3 + blur_score(region) * 4
          + brightness_score(region) * 2 + orientation_score(region) * 1) \div 10,
     metrics |-> [size_score |-> size_score(region),
                  blur_score |-> blur_score(region),
                  brightness_score |-> brightness_score(region),
                  orientation_score |-> orientation_score(region)],
     issues |-> QualityIssues(region)]

assess_image_quality(region) ==
    IF region.width * region.height = 0
    THEN [overall_score |-> 0, issues |-> <<"Empty face region">>]
    ELSE [overall_score |->
              (size_score(region) * 3 + blur_score(region) * 4
               + brightness_score(region) * 2 + orientation_score(region) * 1) \div 10,
          metrics |-> [size_score |-> size_score(region),
                       blur_score |-> blur_score(region),
                       brightness_score |-> brightness_score(region),
                       orientation_score |-> orientation_score(region)],
          issues |-> QualityIssues(region)]

-----------------------------------------------------------------------------
(* The matcher: the body of the loop of recognize_faces *)

\* the empty dict {}
EmptyDict == [k \in {} |-> None]

\* an acceptance test with the distance gate alone
AcceptsOnDistance(best_distance, confidence, fdt, ct) == best_distance <= fdt

\* the two gates of the acceptance test
Accepts(best_distance, confidence, fdt, ct) ==
    best_distance <= fdt /\ confidence >= ct

\* confidence = 1.0 - best_distance
Confidence(best_distance) == One - best_distance

\* a result dict initialised with distance 0.0
BlankResultAtZero(face, face_id) ==
    [face_id |-> face_id,
     location |-> face.location,
     recognized |-> FALSE,
     name |-> "Unknown",
     roll_number |-> None,
     confidence |-> 0,
     distance |-> 0,
     metadata |-> EmptyDict]

\* the result dict before the quality and the match are filled in
BlankResult(face, face_id) ==
    [face_id |-> face_id,
     location |-> face.location,
     recognized |-> FALSE,
     name |-> "Unknown",
     roll_number |-> None,
     confidence |-> 0,
     distance |-> Infinity,
     metadata |-> EmptyDict]

\* a matcher that fills in the best candidate before testing it
BestMatchFilledFirst(face, face_id, best_match_index, best_distance, names, rolls, metadata, fdt, ct) ==
    [result |-> [face_id |-> face_id,
                 location |-> face.location,
                 recognized |-> Accepts(best_distance, Confidence(best_distance), fdt, ct),
                 name |-> names[best_match_index],
                 roll_number |-> rolls[best_match_index],
                 confidence |-> Confidence(best_distance),
                 distance |-> best_distance,
                 metadata |-> metadata[best_match_index]],
     log |-> IF Accepts(best_distance, Confidence(best_distance), fdt, ct)
             THEN <<<<"Recognized", names[best_match_index]>>>>
             ELSE <<<<"Unknown face - Best match", names[best_match_index]>>>>]

\* lines 350-371: the result for the best candidate, and the message logged about it
BestMatch(face, face_id, best_match_index, best_distance, names, rolls, metadata, fdt, ct) ==
    IF Accepts(best_distance, Confidence(best_distance), fdt, ct)
    THEN [result |-> [face_id |-> face_id,
                      location |-> face.location,
                      recognized |-> TRUE,
                      name |-> names[best_match_index],
                      roll_number |-> rolls[best_match_index],
                      confidence |-> Confidence(best_distance),
                      distance |-> best_distance,
                      metadata |-> metadata[best_match_index]],
          log |-> <<<<"Recognized", names[best_match_index]>>>>]
    ELSE [result |-> BlankResult(face, face_id),
          log |-> <<<<"Unknown face - Best match", names[best_match_index]>>>>]

\* line 349: the distance at the best index
MatchAt(face, face_id, best_match_index, face_distances, names, rolls, metadata, fdt, ct) ==
    BestMatch(face, face_id, best_match_index, face_distances[best_match_index],
              names, rolls, metadata, fdt, ct)

\* line 348: the best candidate of a list of distances
MatchAmong(face, face_id, face_distances, names, rolls, metadata, fdt, ct) ==
    MatchAt(face, face_id, ArgMin(face_distances), face_distances,
            names, rolls, metadata, fdt, ct)

\* lines 343-371: the match of one face against the store and the thresholds
MatchFace(face, face_id, encs, names, rolls, metadata, fdt, ct) ==
    IF Len(encs) = 0 THEN [result |-> BlankResult(face, face_id), log |-> <<>>]
    ELSE MatchAmong(face, face_id, FaceDistances(encs, face.encoding),
                    names, rolls, metadata, fdt, ct)

\* lines 335-340: the result dict with its 'quality' entry, and the warning logged
\* for a score under quality_threshold
WithQuality(match, quality_info) ==
    [result |-> [k \in DOMAIN match.result \cup {"quality"} |->
                    IF k = "quality" THEN quality_info ELSE match.result[k]],
     log |-> (IF quality_info.overall_score < quality_threshold
                 THEN <<<<"Low quality face detected">>>>
                 ELSE <<>>) \o match.log]

\* a loop that leaves a face of low quality unmatched
FaceOutcomeRejectingPoor(face, face_id, return_quality, encs, names, rolls, metadata, fdt, ct) ==
    IF return_quality
    THEN WithQuality(IF assess_image_quality(face.location).overall_score < quality_threshold
                     THEN [result |-> BlankResult(face, face_id), log |-> <<>>]
                     ELSE MatchFace(face, face_id, encs, names, rolls, metadata, fdt, ct),
                     assess_image_quality(face.location))
    ELSE MatchFace(face, face_id, encs, names, rolls, metadata, fdt, ct)

\* one pass of the loop: the result of one face, with the quality report when asked
\* for, and what is logged (warning and info levels)
FaceOutcome(face, face_id, return_quality, encs, names, rolls, metadata, fdt, ct) ==
    IF return_quality
    THEN WithQuality(MatchFace(face, face_id, encs, names, rolls, metadata, fdt, ct),
                     assess_image_quality(face.location))
    ELSE MatchFace(face, face_id, encs, names, rolls, metadata, fdt, ct)

RECURSIVE Results(_)
\* the results of a list of outcomes
Results(outcomes) ==
    IF outcomes = <<>> THEN <<>> ELSE <<Head(outcomes).result>> \o Results(Tail(outcomes))

RECURSIVE Logs(_)
\* the messages of a list of outcomes
Logs(outcomes) ==
    IF outcomes = <<>> THEN <<>> ELSE Head(outcomes).log \o Logs(Tail(outcomes))

-----------------------------------------------------------------------------
(* Inputs *)

\* an embedding with first coordinates x and y
Vec(x, y) == [i \in 1..Dim |-> IF i = 1 THEN x ELSE IF i = 2 THEN y ELSE 0]

\* the centres of two clusters, 0.9 apart, and a point 0.375 from the first cluster
v == Vec(0, 0)
w == Vec(900, 0)
m == Vec(0, 400)

ClusterA == <<Vec(25, 0), Vec(-25, 0), Vec(0, 25)>>
ClusterB == <<Vec(925, 0), Vec(875, 0), Vec(900, 25)>>
WideA == <<Vec(0, 0), Vec(300, 0), Vec(600, 0), Vec(0, 300), Vec(300, 300)>>
WideB == <<Vec(3000, 0), Vec(3300, 0), Vec(3600, 0), Vec(3000, 300), Vec(3300, 300)>>

Entry(roll, encodings) == [roll |-> roll, encodings |-> encodings]

\* contents of json_data/encodings.json, as the list of its (roll, encodings) items
EncodingFiles ==
    {NoFile,
     File(<<>>),
     File(<<Entry("101", SubSeq(ClusterA, 1, 2)), Entry("102", SubSeq(ClusterB, 1, 1))>>),
     File(<<Entry("101", ClusterA), Entry("102", ClusterB)>>),
     File(<<Entry("101", WideA)>>),
     File(<<Entry("101", <<Vec(0, 0)>>), Entry("102", <<Vec(900, 0)>>),
            Entry("103", <<Vec(0, 900)>>), Entry("104", <<Vec(900, 900)>>),
            Entry("105", <<Vec(1800, 0)>>), Entry("999", <<Vec(0, 0)>>)>>),
     File(<<Entry("101", <<Vec(0, 0), Vec(350, 0)>>),
            Entry("102", <<Vec(2000, 0), Vec(2400, 0)>>),
            Entry("103", <<Vec(0, 2000)>>)>>),
     File(<<Entry("101", <<Vec(0, 0), Vec(200, 0)>>), Entry("102", <<Vec(900, 0)>>),
            Entry("103", <<Vec(0, 900)>>), Entry("104", <<Vec(900, 900)>>)>>),
     File(<<Entry("101", WideA), Entry("102", WideB)>>)}

Student(name, role) == [name |-> name, role |-> role, registration_date |-> "2024-01-01"]

\* contents of json_data/students.json: roll "999" is never registered
StudentFiles ==
    {NoFile,
     File([r \in {"101", "102", "103", "104", "105"} |->
              IF r = "101" THEN Student("Alice", "student")
              ELSE IF r = "102" THEN Student("Bob", "teacher")
              ELSE IF r = "103" THEN [name |-> "Carol"]
              ELSE IF r = "104" THEN Student("Dave", "student")
              ELSE Student("Eve", "student")])}

\* the crops assess_image_quality is called on: empty, small, fitting and large ones,
\* blurred or sharp, dark, lit or glaring
Regions ==
    [width : {0, 40, 120, 600}, height : {0, 40, 120, 600}, sharpness : {30, 60, 150},
     brightness : {30, 120, 250}]

GoodRegion == [width |-> 120, height |-> 120, sharpness |-> 150, brightness |-> 120]
PoorRegion == [width |-> 40, height |-> 40, sharpness |-> 30, brightness |-> 30]

Face(encoding, region) == [encoding |-> encoding, location |-> region]

\* the faces a frame may show
Faces == {Face(v, GoodRegion), Face(v, PoorRegion), Face(w, GoodRegion), Face(m, GoodRegion)}

\* a frame cv2.cvtColor rejects (None, a wrong shape)
BadFrame == [readable |-> FALSE, faces |-> <<>>]

\* the frames: the faces face_locations and face_encodings find in each, in order
Frame(faces) == [readable |-> TRUE, faces |-> faces]
Frames ==
    {BadFrame, Frame(<<>>)} \cup {Frame(<<f>>) : f \in Faces}
                            \cup {Frame(<<f, g>>) : f \in Faces, g \in Faces}

\* an embedding one coordinate short, and an encodings.json that holds it between two
\* embeddings of the right length
Short == [i \in 1..(Dim - 1) |-> 0]
RaggedFile ==
    File(<<Entry("101", <<Vec(0, 0), Short>>), Entry("102", <<Vec(900, 0)>>)>>)

\* a students.json whose record of roll "102" has no name
NamelessFile ==
    File([r \in {"101", "102", "103", "104", "105"} |->
             IF r = "101" THEN Student("Alice", "student")
             ELSE IF r = "102" THEN [role |-> "teacher"]
             ELSE IF r = "103" THEN [name |-> "Carol"]
             ELSE IF r = "104" THEN Student("Dave", "student")
             ELSE Student("Eve", "student")])

\* the data files of the loader specification
LoadEncodingFiles == EncodingFiles \cup {RaggedFile}
LoadStudentFiles == StudentFiles \cup {NamelessFile}

\* the processing times measured, and the frame counts handed to the selector
Latencies == {100, 4100}
FrameCounts == {0, 50, 100}

-----------------------------------------------------------------------------
(* The attendance window of recognize.py: its lists, load_encodings as the GUI thread  *)
(* runs it from refresh_data, and the thread of recognition_loop.  The two threads     *)
(* share the lists without a lock; a step is one statement that reads or writes them.  *)

recognition_threshold == 400
min_face_confidence == 700

\* f"{student_name} ({student_role})", as the pair of its parts
FullName(info) == <<info["name"], Get(info, "role", "Student")>>

\* full_name.split(" (")[0]
NameOf(full_name) == full_name[1]

RECURSIVE AppItems(_, _)
\* what the loops of lines 186-195 append, in order, up to the first registered entry
\* whose record has no name (KeyError at line 189, which ends the load)
AppItems(enc, stu) ==
    IF enc = <<>> THEN <<>>
    ELSE IF Head(enc).roll \notin DOMAIN stu THEN AppItems(Tail(enc), stu)
    ELSE IF "name" \notin DOMAIN stu[Head(enc).roll] THEN <<>>
    ELSE [i \in 1..Len(Head(enc).encodings) |->
             [encoding |-> Head(enc).encodings[i],
              name |-> FullName(stu[Head(enc).roll]),
              roll |-> Head(enc).roll]]
         \o AppItems(Tail(enc), stu)

\* the three lists holding a sequence of items
AppLists(items) ==
    [known_encodings |-> [i \in 1..Len(items) |-> items[i].encoding],
     known_names |-> [i \in 1..Len(items) |-> items[i].name],
     known_rolls |-> [i \in 1..Len(items) |-> items[i].roll]]

\* the lists after a load_encodings that runs alone, from the lists it finds: a missing
\* file leaves them as they are (FileNotFoundError at lines 174-179)
AppLoaded(enc, stu, lists) ==
    IF enc.exists /\ stu.exists THEN AppLists(AppItems(enc.data, stu.data)) ELSE lists

\* the GUI thread outside load_encodings, and the recognition thread before it starts
IdleRefresh == [pc |-> "idle", todo |-> <<>>]
StoppedLoop ==
    [pc |-> "stopped", q |-> <<>>, matches |-> <<>>, seen |-> <<>>, best |-> 0,
     distance |-> 0, name |-> "Unknown", roll |-> "Unknown"]

\* the embeddings the camera shows, and versions of encodings.json that list the same
\* two persons in either order
Queries == {v, w}
ReloadFiles ==
    {File(<<Entry("101", <<v>>), Entry("102", <<w>>)>>),
     File(<<Entry("102", <<w>>), Entry("101", <<v>>)>>)}

\* self.camera after stop_recognition and after cv2.VideoCapture(0)
NoCamera == "None"
VideoCapture == "VideoCapture"

\* the GUI thread outside load_today_attendance
NotReading == [pending |-> FALSE]

\* the record save_attendance keeps for a roll
AttendanceRecord(student_name, current_time) ==
    [name |-> student_name, time |-> current_time]

\* self.today_attendance[roll_number] = record
WithRecord(records, roll_number, record) ==
    [r \in DOMAIN records \cup {roll_number} |->
        IF r = roll_number THEN record ELSE records[r]]

\* load_today_attendance: the dict of a file, {} for a missing one
LoadedAttendance(file) == IF file.exists THEN file.data ELSE EmptyDict

\* attendance/<today>.json when the window opens: missing, or kept from an earlier run
\* of the day that marked roll "102"
AttendanceFiles ==
    {NoFile, File(WithRecord(EmptyDict, "102", AttendanceRecord("Bob", 0)))}

\* recognize.py lines 33-54: the window's variables, today's attendance loaded
DeskOpened(file) ==
    /\ is_running = FALSE
    /\ camera = NoCamera
    /\ attendance_file = file
    /\ today_attendance = LoadedAttendance(file)
    /\ workers = <<>>
    /\ reading = NotReading
    /\ now = 0

\* a thread of recognition_loop at the head of its loop
NewWorker == [pc |-> "307", roll |-> "Unknown", status |-> ""]

\* the persons who step in front of the camera
Visitors == {"101"}

-----------------------------------------------------------------------------
(* The engine *)

total_attempts == recognition_stats.total_attempts
successful_recognitions == recognition_stats.successful_recognitions
processing_times == recognition_stats.processing_times
confidence_scores == recognition_stats.confidence_scores

\* lines 127-140: the four lists the loops build
LoadedStore(entries, stu) ==
    [encodings |-> LoadedEncodings(entries),
     names |-> LoadedNames(entries, stu),
     rolls |-> LoadedRolls(entries),
     metadata |-> LoadedMetadata(entries, stu)]

EmptyStore == [encodings |-> <<>>, names |-> <<>>, rolls |-> <<>>, metadata |-> <<>>]

\* an outcome of load_encodings: the store, and what became of the thresholds
Outcome(st, cal, log) ==
    [encodings |-> st.encodings, names |-> st.names, rolls |-> st.rolls,
     metadata |-> st.metadata, fdt |-> cal.fdt, ct |-> cal.ct, file |-> cal.file,
     log |-> log \o cal.log]

\* a load that calibrates on as few embeddings as auto_calibrate accepts
LoadedEffectFromFive(st, fdt, ct, model, file, write_ok) ==
    Outcome(st,
            IF Len(st.encodings) >= MinCalibrationEncodings
            THEN CalibrationEffect(st.encodings, st.rolls, fdt, ct, model, file, write_ok)
            ELSE [fdt |-> fdt, ct |-> ct, file |-> file, log |-> <<>>],
            <<<<"Loaded face encodings">>>>)

\* lines 142-146: auto_calibrate runs when at least 10 embeddings were loaded
LoadedEffect(st, fdt, ct, model, file, write_ok) ==
    Outcome(st,
            IF Len(st.encodings) >= AutoCalibrateEncodings
            THEN CalibrationEffect(st.encodings, st.rolls, fdt, ct, model, file, write_ok)
            ELSE [fdt |-> fdt, ct |-> ct, file |-> file, log |-> <<>>],
            <<<<"Loaded face encodings">>>>)

RECURSIVE EncodingsUntilError(_, _)
\* the embeddings appended at line 132 up to the KeyError of line 133
EncodingsUntilError(enc, stu) ==
    IF enc = <<>> THEN <<>>
    ELSE IF Head(enc).roll \notin DOMAIN stu THEN EncodingsUntilError(Tail(enc), stu)
    ELSE IF "name" \notin DOMAIN stu[Head(enc).roll]
         THEN SubSeq(Head(enc).encodings, 1, Min(1, Len(Head(enc).encodings)))
    ELSE Head(enc).encodings \o EncodingsUntilError(Tail(enc), stu)

\* a load whose except branch leaves the lists as the error found them
LoadEffectWithoutReset(enc, stu, fdt, ct, model, file, write_ok) ==
    IF ~enc.exists \/ ~stu.exists
    THEN Outcome(EmptyStore, [fdt |-> fdt, ct |-> ct, file |-> file, log |-> <<>>],
                 <<<<"No existing encodings found, starting fresh">>>>)
    ELSE IF LoadRaises(enc.data, stu.data)
    THEN Outcome([EmptyStore EXCEPT !.encodings = EncodingsUntilError(enc.data, stu.data)],
                 [fdt |-> fdt, ct |-> ct, file |-> file, log |-> <<>>],
                 <<<<"Error loading encodings">>>>)
    ELSE LoadedEffect(LoadedStore(KnownEntries(enc.data, stu.data), stu.data),
                      fdt, ct, model, file, write_ok)

\* the effect of load_encodings on the store, the thresholds, the calibration file and
\* the log, for the files (enc, stu) and an engine with thresholds (fdt, ct)
LoadEffect(enc, stu, fdt, ct, model, file, write_ok) ==
    IF ~enc.exists \/ ~stu.exists
    THEN Outcome(EmptyStore, [fdt |-> fdt, ct |-> ct, file |-> file, log |-> <<>>],
                 <<<<"No existing encodings found, starting fresh">>>>)
    ELSE IF LoadRaises(enc.data, stu.data)
    THEN Outcome(EmptyStore, [fdt |-> fdt, ct |-> ct, file |-> file, log |-> <<>>],
                 <<<<"Error loading encodings">>>>)
    ELSE LoadedEffect(LoadedStore(KnownEntries(enc.data, stu.data), stu.data),
                      fdt, ct, model, file, write_ok)

\* no thread is inside auto_calibrate, none at the acceptance test of recognize_faces
NotCalibrating == [pc |-> "158"]
NotMatching == [pc |-> "300"]

\* __init__ on data files drawn from encs and stus: the defaults, then load_encodings
Constructed(encs, stus) ==
    /\ encodings_file \in encs
    /\ students_file \in stus
    /\ model_metadata_file = NoFile
    /\ current_model = "hog"
    /\ recognition_stats = [total_attempts |-> 0, successful_recognitions |-> 0,
                            false_positives |-> 0, processing_times |-> <<>>,
                            confidence_scores |-> <<>>]
    /\ \E write_ok \in BOOLEAN :
          \E e \in {LoadEffect(encodings_file, students_file, DefaultDistanceThreshold,
                               DefaultConfidenceThreshold, "hog", NoFile, write_ok)} :
              /\ known_encodings = e.encodings
              /\ known_names = e.names
              /\ known_rolls = e.rolls
              /\ known_metadata = e.metadata
              /\ face_distance_threshold = e.fdt
              /\ confidence_threshold = e.ct
              /\ calibration_file = e.file
              /\ logged = e.log
    /\ call = [op |-> "__init__"]
    /\ ret = None
    /\ calibrating = NotCalibrating
    /\ matching = NotMatching

\* no attendance window is open beside the engine: the lists of recognize.py are as
\* lines 35-37 leave them
NoWindow ==
    /\ attendance = AppLists(<<>>)
    /\ refresh = IdleRefresh
    /\ loop = StoppedLoop
    /\ DeskOpened(NoFile)

\* recognize.py __init__: the attendance window has loaded the data files (line 53)
WindowOpened ==
    /\ attendance = AppLoaded(encodings_file, students_file, AppLists(<<>>))
    /\ refresh = IdleRefresh
    /\ loop = StoppedLoop
    /\ \E file \in AttendanceFiles : DeskOpened(file)

Init == Constructed(EncodingFiles, StudentFiles) /\ NoWindow

\* train.py, or save_student_encodings, rewrites json_data/encodings.json
WriteEncodingsFile(enc) ==
    /\ encodings_file' = enc
    /\ UNCHANGED <<students_file, model_metadata_file, store, thresholds, current_model, recognition_stats,
                   calibration_file, call, ret, logged, recognizer, threads>>

\* register.py rewrites json_data/students.json
WriteStudentsFile(stu) ==
    /\ students_file' = stu
    /\ UNCHANGED <<encodings_file, model_metadata_file, store, thresholds, current_model, recognition_stats,
                   calibration_file, call, ret, logged, recognizer, threads>>

\* a load that appends to the lists it finds instead of starting from empty ones
LoadAppending(write_ok) ==
    \E e \in {LoadEffect(encodings_file, students_file, face_distance_threshold,
                         confidence_threshold, current_model, calibration_file, write_ok)} :
        /\ known_encodings' = known_encodings \o e.encodings
        /\ known_names' = known_names \o e.names
        /\ known_rolls' = known_rolls \o e.rolls
        /\ known_metadata' = known_metadata \o e.metadata
        /\ face_distance_threshold' = e.fdt
        /\ confidence_threshold' = e.ct
        /\ calibration_file' = e.file
        /\ logged' = e.log
        /\ call' = [op |-> "load_encodings"]
        /\ ret' = None
        /\ UNCHANGED <<disk, current_model, recognition_stats, recognizer, threads>>

load_encodings(write_ok) ==
    \E e \in {LoadEffect(encodings_file, students_file, face_distance_threshold,
                         confidence_threshold, current_model, calibration_file, write_ok)} :
        /\ known_encodings' = e.encodings
        /\ known_names' = e.names
        /\ known_rolls' = e.rolls
        /\ known_metadata' = e.metadata
        /\ face_distance_threshold' = e.fdt
        /\ confidence_threshold' = e.ct
        /\ calibration_file' = e.file
        /\ logged' = e.log
        /\ call' = [op |-> "load_encodings"]
        /\ ret' = None
        /\ UNCHANGED <<disk, current_model, recognition_stats, recognizer, threads>>

auto_calibrate(write_ok) ==
    \E e \in {CalibrationEffect(known_encodings, known_rolls, face_distance_threshold,
                                confidence_threshold, current_model, calibration_file,
                                write_ok)} :
        /\ face_distance_threshold' = e.fdt
        /\ confidence_threshold' = e.ct
        /\ calibration_file' = e.file
        /\ logged' = e.log
        /\ call' = [op |-> "auto_calibrate"]
        /\ ret' = None
        /\ UNCHANGED <<disk, store, current_model, recognition_stats, recognizer, threads>>

\* all_encodings[student_roll] = encodings on the items of encodings.json: the list of
\* a roll the file has is replaced in its place, a new roll comes last
WithStudentEncodings(items, student_roll, encodings) ==
    IF \E k \in 1..Len(items) : items[k].roll = student_roll
    THEN [k \in 1..Len(items) |->
             IF items[k].roll = student_roll THEN Entry(student_roll, encodings)
             ELSE items[k]]
    ELSE Append(items, Entry(student_roll, encodings))

\* save_student_encodings: encodings.json after the write
SavedEncodings(file, student_roll, encodings) ==
    File(WithStudentEncodings(IF file.exists THEN file.data ELSE <<>>,
                              student_roll, encodings))

RECURSIVE TotalEncodings(_)
\* sum(len(encs) for encs in encodings_data.values())
TotalEncodings(items) ==
    IF items = <<>> THEN 0 ELSE Len(Head(items).encodings) + TotalEncodings(Tail(items))

\* update_model_metadata: the record written to model_metadata.json, without its date
ModelMetadata(file, model, fdt, ct) ==
    [total_students |-> IF file.exists THEN Len(file.data) ELSE 0,
     total_encodings |-> IF file.exists THEN TotalEncodings(file.data) ELSE 0,
     model_version |-> "2.0",
     face_detection_model |-> model,
     distance_threshold |-> fdt,
     confidence_threshold |-> ct]

\* process_student_images on a folder whose images yield the list encodings: nothing is
\* saved of an empty list (lines 535-539); save_student_encodings rewrites
\* encodings.json, and when that succeeds update_model_metadata and load_encodings run
process_student_images(student_roll, encodings, save_ok, metadata_ok, write_ok) ==
    /\ call' = [op |-> "process_student_images", student_roll |-> student_roll,
                encodings |-> encodings]
    /\ IF encodings = <<>>
       THEN /\ ret' = FALSE
            /\ logged' = <<<<"No valid encodings generated">>>>
            /\ UNCHANGED <<disk, store, thresholds, calibration_file>>
       ELSE IF ~save_ok
       THEN /\ ret' = FALSE
            /\ logged' = <<<<"Failed to save encodings">>>>
            /\ UNCHANGED <<disk, store, thresholds, calibration_file>>
       ELSE \E saved \in {SavedEncodings(encodings_file, student_roll, encodings)} :
            \E e \in {LoadEffect(saved, students_file, face_distance_threshold,
                                 confidence_threshold, current_model, calibration_file,
                                 write_ok)} :
                /\ encodings_file' = saved
                /\ model_metadata_file' =
                       IF metadata_ok
                       THEN File(ModelMetadata(saved, current_model,
                                               face_distance_threshold,
                                               confidence_threshold))
                       ELSE model_metadata_file
                /\ known_encodings' = e.encodings
                /\ known_names' = e.names
                /\ known_rolls' = e.rolls
                /\ known_metadata' = e.metadata
                /\ face_distance_threshold' = e.fdt
                /\ confidence_threshold' = e.ct
                /\ calibration_file' = e.file
                /\ logged' = <<<<"Saved encodings for student">>,
                               IF metadata_ok THEN <<"Updated model metadata">>
                                              ELSE <<"Failed to update metadata">>>>
                             \o e.log
                /\ ret' = TRUE
                /\ UNCHANGED students_file
    /\ UNCHANGED <<current_model, recognition_stats, recognizer, threads>>

RECURSIVE FrameOutcomes(_, _, _)
\* the loop over the faces of a frame, the first having face_id
FrameOutcomes(faces, face_id, return_quality) ==
    IF faces = <<>> THEN <<>>
    ELSE <<FaceOutcome(Head(faces), face_id, return_quality, known_encodings, known_names,
                       known_rolls, known_metadata, face_distance_threshold,
                       confidence_threshold)>>
         \o FrameOutcomes(Tail(faces), face_id + 1, return_quality)

RECURSIVE AcceptedConfidences(_)
\* the confidences appended to confidence_scores: one per accepted face, in order
AcceptedConfidences(results) ==
    IF results = <<>> THEN <<>>
    ELSE (IF Head(results).recognized THEN <<Head(results).confidence>> ELSE <<>>)
         \o AcceptedConfidences(Tail(results))

\* statistics that count one success per frame with an accepted face
CountedStatsPerFrame(stats, scores, processing_time) ==
    [stats EXCEPT !.total_attempts = @ + 1,
                  !.successful_recognitions = @ + (IF scores = <<>> THEN 0 ELSE 1),
                  !.confidence_scores = @ \o scores,
                  !.processing_times = Append(@, processing_time)]

\* the statistics after a frame with faces: lines 303, 366-367 and 377
CountedStats(stats, scores, processing_time) ==
    [stats EXCEPT !.total_attempts = @ + 1,
                  !.successful_recognitions = @ + Len(scores),
                  !.confidence_scores = @ \o scores,
                  !.processing_times = Append(@, processing_time)]

recognize_faces(frame, return_quality, processing_time) ==
    /\ call' = [op |-> "recognize_faces", frame |-> frame, return_quality |-> return_quality]
    /\ IF ~frame.readable
       THEN \* cv2.cvtColor raises: the except branch returns []
            /\ recognition_stats' =
                   [recognition_stats EXCEPT !.total_attempts = @ + 1]
            /\ ret' = <<>>
            /\ logged' = <<<<"Recognition error">>>>
       ELSE IF frame.faces = <<>>
       THEN \* no face located: return [] before any time is recorded
            /\ recognition_stats' =
                   [recognition_stats EXCEPT !.total_attempts = @ + 1]
            /\ ret' = <<>>
            /\ logged' = <<>>
       ELSE \E outcomes \in {FrameOutcomes(frame.faces, 0, return_quality)} :
                /\ recognition_stats' =
                       CountedStats(recognition_stats,
                                    AcceptedConfidences(Results(outcomes)), processing_time)
                /\ ret' = Results(outcomes)
                /\ logged' = Logs(outcomes)
    /\ UNCHANGED <<disk, store, thresholds, current_model, calibration_file, recognizer, threads>>

RECURSIVE MaxOf(_)
\* max(list) of a non-empty list
MaxOf(s) == IF Len(s) = 1 THEN s[1] ELSE Max(Head(s), MaxOf(Tail(s)))

RECURSIVE MinOf(_)
\* min(list) of a non-empty list
MinOf(s) == IF Len(s) = 1 THEN s[1] ELSE Min(Head(s), MinOf(Tail(s)))

\* a rate that is 1.0 when nothing was attempted
RateDefaultingToOne(successes, attempts) ==
    IF attempts > 0 THEN (successes * One) \div attempts ELSE One

\* lines 405-408: successful_recognitions / total_attempts, in thousandths rounded down,
\* and 0.0 when nothing was attempted
recognition_rate(successes, attempts) ==
    IF attempts > 0 THEN (successes * One) \div attempts ELSE 0

\* the keys get_performance_stats adds to its copy of recognition_stats
PerformanceKeys(stats) ==
    {"recognition_rate"}
    \cup (IF stats.processing_times # <<>>
             THEN {"avg_processing_time", "max_processing_time"} ELSE {})
    \cup (IF stats.confidence_scores # <<>>
             THEN {"avg_confidence", "min_confidence"} ELSE {})

\* the dict get_performance_stats returns: the copy with the derived entries
PerformanceStats(stats) ==
    [k \in DOMAIN stats \cup PerformanceKeys(stats) |->
        CASE k = "recognition_rate" ->
                 recognition_rate(stats.successful_recognitions, stats.total_attempts)
          [] k = "avg_processing_time" -> Mean(stats.processing_times)
          [] k = "max_processing_time" -> MaxOf(stats.processing_times)
          [] k = "avg_confidence" -> Mean(stats.confidence_scores)
          [] k = "min_confidence" -> MinOf(stats.confidence_scores)
          [] OTHER -> stats[k]]

get_performance_stats ==
    /\ ret' = PerformanceStats(recognition_stats)
    /\ call' = [op |-> "get_performance_stats"]
    /\ logged' = <<>>
    /\ UNCHANGED <<disk, store, thresholds, current_model, recognition_stats,
                   calibration_file, recognizer, threads>>

\* a call of assess_image_quality on a frame and a box whose crop is region
AssessQuality(region) ==
    /\ ret' = assess_image_quality(region)
    /\ call' = [op |-> "assess_image_quality", region |-> region]
    /\ logged' = <<>>
    /\ UNCHANGED <<disk, store, thresholds, current_model, recognition_stats,
                   calibration_file, recognizer, threads>>

\* the last WindowSize elements, processing_times[-10:]
LastTimes(times) == SubSeq(times, Max(1, Len(times) - WindowSize + 1), Len(times))

\* a selector that evaluates the latencies on every call
AtEveryCall(frame_count, times) == Len(times) > MinTimes

\* whether adaptive_model_selection evaluates the latencies on this call
AtCheckpoint(frame_count, times) ==
    frame_count % CheckpointPeriod = 0 /\ Len(times) > MinTimes

\* a selector whose comparisons include the ends of the band
SelectedModelInclusive(frame_count, times, model) ==
    IF AtCheckpoint(frame_count, times)
    THEN LET avg_time == Mean(LastTimes(times))
         IN  IF avg_time >= SlowTime /\ model = "cnn" THEN "hog"
             ELSE IF avg_time <= FastTime /\ model = "hog" THEN "cnn"
             ELSE model
    ELSE model

\* the detector model adaptive_model_selection leaves
SelectedModel(frame_count, times, model) ==
    IF AtCheckpoint(frame_count, times)
    THEN LET avg_time == Mean(LastTimes(times))
         IN  IF avg_time > SlowTime /\ model = "cnn" THEN "hog"
             ELSE IF avg_time < FastTime /\ model = "hog" THEN "cnn"
             ELSE model
    ELSE model

adaptive_model_selection(frame_count) ==
    /\ current_model' = SelectedModel(frame_count, processing_times, current_model)
    /\ logged' = IF current_model' = current_model THEN <<>>
                 ELSE IF current_model' = "hog"
                      THEN <<<<"Switched to HOG model for better performance">>>>
                      ELSE <<<<"Switched to CNN model for better accuracy">>>>
    /\ call' = [op |-> "adaptive_model_selection", frame_count |-> frame_count]
    /\ ret' = None
    /\ UNCHANGED <<disk, store, thresholds, recognition_stats, calibration_file,
                   recognizer, threads>>

\* the variables of the engine
engine ==
    <<store, thresholds, current_model, recognition_stats, calibration_file, call, ret,
      logged, threads>>

\* recognize.py lines 172-179: load_encodings reads the two files
RefreshRead ==
    /\ refresh.pc = "idle"
    /\ refresh' = IF encodings_file.exists /\ students_file.exists
                  THEN [pc |-> "182",
                        todo |-> AppItems(encodings_file.data, students_file.data)]
                  ELSE refresh
    /\ UNCHANGED <<disk, engine, attendance, loop, desk>>

\* recognize.py lines 182-184: the three lists are replaced by empty ones, one by one
RefreshReset ==
    /\ refresh.pc \in {"182", "183", "184"}
    /\ attendance' =
           IF refresh.pc = "182" THEN [attendance EXCEPT !.known_encodings = <<>>]
           ELSE IF refresh.pc = "183" THEN [attendance EXCEPT !.known_names = <<>>]
           ELSE [attendance EXCEPT !.known_rolls = <<>>]
    /\ refresh' =
           IF refresh.pc = "182" THEN [refresh EXCEPT !.pc = "183"]
           ELSE IF refresh.pc = "183" THEN [refresh EXCEPT !.pc = "184"]
           ELSE IF refresh.todo = <<>> THEN IdleRefresh
           ELSE [refresh EXCEPT !.pc = "193"]
    /\ UNCHANGED <<disk, engine, loop, desk>>

\* recognize.py lines 193-195: the three appends of one embedding, one by one
RefreshAppend ==
    /\ refresh.pc \in {"193", "194", "195"}
    /\ attendance' =
           IF refresh.pc = "193"
           THEN [attendance EXCEPT !.known_encodings = Append(@, Head(refresh.todo).encoding)]
           ELSE IF refresh.pc = "194"
           THEN [attendance EXCEPT !.known_names = Append(@, Head(refresh.todo).name)]
           ELSE [attendance EXCEPT !.known_rolls = Append(@, Head(refresh.todo).roll)]
    /\ refresh' =
           IF refresh.pc = "193" THEN [refresh EXCEPT !.pc = "194"]
           ELSE IF refresh.pc = "194" THEN [refresh EXCEPT !.pc = "195"]
           ELSE IF Tail(refresh.todo) = <<>> THEN IdleRefresh
           ELSE [pc |-> "193", todo |-> Tail(refresh.todo)]
    /\ UNCHANGED <<disk, engine, loop, desk>>

\* recognize.py lines 277-298: the GUI thread starts the recognition thread, unless the
\* store is empty
start_recognition ==
    /\ loop.pc = "stopped"
    /\ refresh.pc = "idle"
    /\ Len(attendance.known_encodings) > 0
    /\ loop' = [StoppedLoop EXCEPT !.pc = "frame"]
    /\ UNCHANGED <<disk, engine, attendance, refresh, desk>>

\* recognize.py lines 307-338 (and 384-387 of the frame before): a frame showing one
\* face, of embedding q
LoopFrame(q) ==
    /\ loop.pc \in {"frame", "done"}
    /\ loop' = [StoppedLoop EXCEPT !.pc = "340", !.q = q]
    /\ UNCHANGED <<disk, engine, attendance, refresh, desk>>

\* recognize.py lines 340-341: compare_faces reads known_encodings
LoopCompare ==
    /\ loop.pc = "340"
    /\ \E d \in {FaceDistances(attendance.known_encodings, loop.q)} :
          loop' = [loop EXCEPT !.pc = "346",
                               !.matches = [i \in 1..Len(d) |-> d[i] <= recognition_threshold]]
    /\ UNCHANGED <<disk, engine, attendance, refresh, desk>>

\* the thread after lines 346-352 and 380-382, for the distances d it has just
\* computed: matches[best_match_index] raises IndexError on a shorter list
Measured(d) ==
    IF Len(d) = 0
    THEN [loop EXCEPT !.pc = "done", !.seen = attendance.known_encodings]
    ELSE IF ArgMin(d) > Len(loop.matches)
    THEN [loop EXCEPT !.pc = "crashed", !.seen = attendance.known_encodings]
    ELSE IF loop.matches[ArgMin(d)] /\ d[ArgMin(d)] < recognition_threshold
    THEN [loop EXCEPT !.pc = "354", !.seen = attendance.known_encodings,
                      !.best = ArgMin(d), !.distance = d[ArgMin(d)]]
    ELSE [loop EXCEPT !.pc = "done", !.seen = attendance.known_encodings,
                      !.name = "Unknown (Poor Match)"]

\* recognize.py lines 346-352: face_distance reads known_encodings again
LoopMeasure ==
    /\ loop.pc = "346"
    /\ loop' = Measured(FaceDistances(attendance.known_encodings, loop.q))
    /\ UNCHANGED <<disk, engine, attendance, refresh, desk>>

\* recognize.py lines 354-358: known_names[best_match_index]
LoopName ==
    /\ loop.pc = "354"
    /\ loop' = IF loop.best > Len(attendance.known_names)
               THEN [loop EXCEPT !.pc = "crashed"]
               ELSE [loop EXCEPT !.pc = "359",
                                 !.name = NameOf(attendance.known_names[loop.best])]
    /\ UNCHANGED <<disk, engine, attendance, refresh, desk>>

\* recognize.py lines 359-384: known_rolls[best_match_index], then the confidence test;
\* a result with a roll marks that roll present under that name
LoopRoll ==
    /\ loop.pc = "359"
    /\ loop' = IF loop.best > Len(attendance.known_rolls)
               THEN [loop EXCEPT !.pc = "crashed"]
               ELSE IF One - loop.distance < min_face_confidence
               THEN [loop EXCEPT !.pc = "done", !.name = "Unknown (Low Confidence)"]
               ELSE [loop EXCEPT !.pc = "done",
                                 !.roll = attendance.known_rolls[loop.best]]
    /\ UNCHANGED <<disk, engine, attendance, refresh, desk>>

\* auto_calibrate in a thread of its own, lines 158-203: with too little data it
\* returns at once, otherwise it assigns the new face_distance_threshold
CalibrateDistance ==
    /\ calibrating.pc = "158"
    /\ \E e \in {CalibrationEffect(known_encodings, known_rolls, face_distance_threshold,
                                    confidence_threshold, current_model, calibration_file,
                                    FALSE)} :
          /\ face_distance_threshold' = e.fdt
          /\ calibrating' =
                 [pc |-> IF <<"Auto-calibration complete">> \in
                                {e.log[k] : k \in 1..Len(e.log)}
                         THEN "206" ELSE "returned",
                  before |-> <<face_distance_threshold, confidence_threshold>>,
                  after |-> <<e.fdt, e.ct>>]
    /\ UNCHANGED <<disk, store, confidence_threshold, current_model, recognition_stats,
                   calibration_file, call, ret, logged, matching, recognizer>>

\* auto_calibrate, lines 206-215: the new confidence_threshold is assigned and the
\* record saved
CalibrateConfidence(write_ok) ==
    /\ calibrating.pc = "206"
    /\ confidence_threshold' = CalibratedConfidence(face_distance_threshold)
    /\ calibration_file' =
           IF write_ok
           THEN File(CalibrationRecord(face_distance_threshold, confidence_threshold',
                                       current_model, known_encodings, known_rolls))
           ELSE calibration_file
    /\ calibrating' = [calibrating EXCEPT !.pc = "returned"]
    /\ UNCHANGED <<disk, store, face_distance_threshold, current_model,
                   recognition_stats, call, ret, logged, matching, recognizer>>

\* recognize_faces in another thread, on a frame with one face, lines 300-356: the
\* left operand of the acceptance test reads self.face_distance_threshold
MatchReadDistance(face) ==
    /\ matching.pc = "300"
    /\ total_attempts < MaxAttempts
    /\ known_encodings # <<>>
    /\ matching' = [pc |-> "356", face |-> face,
                    fdt |-> face_distance_threshold]
    /\ UNCHANGED <<disk, store, thresholds, current_model, recognition_stats,
                   calibration_file, call, ret, logged, calibrating, recognizer>>

\* recognize_faces, lines 356-385: the right operand reads self.confidence_threshold
\* (when the left one held), the result is built of the two values read and returned
MatchReadConfidence(processing_time) ==
    /\ matching.pc = "356"
    /\ \E outcome \in {MatchFace(matching.face, 0, known_encodings, known_names,
                                  known_rolls, known_metadata, matching.fdt,
                                  confidence_threshold)} :
          /\ ret' = <<outcome.result>>
          /\ logged' = outcome.log
          /\ recognition_stats' =
                 CountedStats(recognition_stats, AcceptedConfidences(<<outcome.result>>),
                              processing_time)
    /\ call' = [op |-> "recognize_faces", frame |-> Frame(<<matching.face>>),
                return_quality |-> FALSE]
    /\ matching' = [pc |-> "returned", face |-> matching.face, fdt |-> matching.fdt,
                    ct |-> confidence_threshold]
    /\ UNCHANGED <<disk, store, thresholds, current_model, calibration_file, calibrating,
                   recognizer>>

\* the clock advances
Tick ==
    /\ now < MaxTime
    /\ now' = now + 1
    /\ UNCHANGED <<disk, engine, attendance, refresh, loop, is_running, camera,
                   today_attendance, attendance_file, workers, reading>>

\* recognize.py lines 277-298, start_recognition from the Start button, which is enabled
\* while recognition is off: the camera is opened, is_running set, a thread started
StartClicked ==
    /\ ~is_running
    /\ ~reading.pending
    /\ Len(attendance.known_encodings) > 0
    /\ Len(workers) < MaxWorkers
    /\ camera' = VideoCapture
    /\ is_running' = TRUE
    /\ workers' = Append(workers, NewWorker)
    /\ UNCHANGED <<disk, engine, attendance, refresh, loop, today_attendance,
                   attendance_file, reading, now>>

\* recognize.py lines 465-478, stop_recognition from the Stop button: the flag is
\* cleared and the camera released; no thread is joined
StopClicked ==
    /\ is_running
    /\ ~reading.pending
    /\ is_running' = FALSE
    /\ camera' = NoCamera
    /\ UNCHANGED <<disk, engine, attendance, refresh, loop, today_attendance,
                   attendance_file, workers, reading, now>>

\* recognize.py lines 480-482 and 212-216, refresh_data from the Refresh button:
\* load_encodings, then load_today_attendance reads the file of the day
RefreshClicked ==
    /\ ~reading.pending
    /\ attendance' = AppLoaded(encodings_file, students_file, attendance)
    /\ reading' = [pending |-> TRUE, file |-> attendance_file]
    /\ UNCHANGED <<disk, engine, refresh, loop, is_running, camera, today_attendance,
                   attendance_file, workers, now>>

\* recognize.py lines 216-221: what was read is assigned to self.today_attendance
RefreshAssign ==
    /\ reading.pending
    /\ today_attendance' = LoadedAttendance(reading.file)
    /\ reading' = NotReading
    /\ UNCHANGED <<disk, engine, attendance, refresh, loop, is_running, camera,
                   attendance_file, workers, now>>

\* recognize.py lines 307-365 (and 389-398 in demo mode): thread t tests the loop
\* condition and, when it holds, reads a frame in which roll is recognized with
\* confidence (or which simulate_recognition draws)
WorkerFrame(t, roll) ==
    /\ workers[t].pc = "307"
    /\ workers' = [workers EXCEPT ![t] =
                      IF is_running /\ camera # NoCamera
                      THEN [@ EXCEPT !.pc = "367", !.roll = roll]
                      ELSE [@ EXCEPT !.pc = "exited"]]
    /\ UNCHANGED <<disk, engine, attendance, refresh, loop, is_running, camera,
                   today_attendance, attendance_file, reading, now>>

\* recognize.py lines 367 and 377-379: if roll not in self.today_attendance
WorkerTest(t) ==
    /\ workers[t].pc = "367"
    /\ workers' = [workers EXCEPT ![t] =
                      IF workers[t].roll \notin DOMAIN today_attendance
                      THEN [@ EXCEPT !.pc = "368"]
                      ELSE [@ EXCEPT !.pc = "307", !.status = "Already marked"]]
    /\ UNCHANGED <<disk, engine, attendance, refresh, loop, is_running, camera,
                   today_attendance, attendance_file, reading, now>>

\* recognize.py lines 354-359: the name the window's lists hold beside a roll
NameUnder(roll) ==
    NameOf(attendance.known_names[CHOOSE k \in 1..Len(attendance.known_rolls) :
                                      attendance.known_rolls[k] = roll])

\* recognize.py lines 368-375 and 223-250: save_attendance puts the record in
\* self.today_attendance and then dumps the dict to the file of the day
WorkerSave(t, write_ok) ==
    /\ workers[t].pc = "368"
    /\ \E records \in {WithRecord(today_attendance, workers[t].roll,
                                   AttendanceRecord(NameUnder(workers[t].roll), now))} :
          /\ today_attendance' = records
          /\ attendance_file' = IF write_ok THEN File(records) ELSE attendance_file
    /\ workers' = [workers EXCEPT ![t] =
                      [@ EXCEPT !.pc = "307",
                                !.status = IF write_ok THEN "Attendance marked"
                                           ELSE "Failed to save attendance"]]
    /\ UNCHANGED <<disk, engine, attendance, refresh, loop, is_running, camera,
                   reading, now>>

\* The store and the calibrator: the data files change, the engine reloads and calibrates.
Next ==
    \/ \E enc \in EncodingFiles : WriteEncodingsFile(enc)
    \/ \E stu \in StudentFiles : WriteStudentsFile(stu)
    \/ \E write_ok \in BOOLEAN : load_encodings(write_ok)
    \/ \E write_ok \in BOOLEAN : auto_calibrate(write_ok)

Spec == Init /\ [][Next]_vars

\* The matcher: an engine constructed on any data files recognises frames, reloads,
\* calibrates and reports its statistics.
NextMatch ==
    \/ \E write_ok \in BOOLEAN : load_encodings(write_ok)
    \/ \E write_ok \in BOOLEAN : auto_calibrate(write_ok)
    \/ /\ total_attempts < MaxAttempts
       /\ \E frame \in Frames, return_quality \in BOOLEAN :
             recognize_faces(frame, return_quality, 100)
    \/ get_performance_stats

SpecMatch == Init /\ [][NextMatch]_vars

\* The detector selection: an engine constructed without data files times its frames
\* and is asked to select the detector.
InitSel == Init /\ ~encodings_file.exists /\ ~students_file.exists

NextSel ==
    \/ \E t \in Latencies :
          /\ Len(processing_times) < MaxSamples
          /\ recognize_faces(Frame(<<Face(v, GoodRegion)>>), FALSE, t)
    \/ \E frame_count \in FrameCounts : adaptive_model_selection(frame_count)
    \/ \E write_ok \in BOOLEAN : load_encodings(write_ok)
    \/ \E write_ok \in BOOLEAN : auto_calibrate(write_ok)

SpecSel == InitSel /\ [][NextSel]_vars

\* The quality assessor, called on its own on an engine without data files.
NextQuality == \E region \in Regions : AssessQuality(region)

SpecQuality == InitSel /\ [][NextQuality]_vars

\* The loader: the data files may hold a student record without a name and an embedding
\* of another length.  Such a store is only loaded and calibrated (it holds fewer than
\* 5 embeddings), never matched against.
InitLoad == Constructed(LoadEncodingFiles, LoadStudentFiles) /\ NoWindow

NextLoad ==
    \/ \E enc \in LoadEncodingFiles : WriteEncodingsFile(enc)
    \/ \E stu \in LoadStudentFiles : WriteStudentsFile(stu)
    \/ \E write_ok \in BOOLEAN : load_encodings(write_ok)
    \/ \E write_ok \in BOOLEAN : auto_calibrate(write_ok)

SpecLoad == InitLoad /\ [][NextLoad]_vars

\* Enrolment: images of a registered student and of an unregistered roll, with a face
\* in one of them or in none, are processed on an engine constructed on any data files.
EnrolledRolls == {"101", "999"}
EnrolledEncodings == {<<>>, <<m>>}

NextEnrol ==
    \/ \E student_roll \in EnrolledRolls, encodings \in EnrolledEncodings,
          save_ok \in BOOLEAN, metadata_ok \in BOOLEAN, write_ok \in BOOLEAN :
          process_student_images(student_roll, encodings, save_ok, metadata_ok, write_ok)
    \/ \E write_ok \in BOOLEAN : load_encodings(write_ok)

SpecEnrol == Init /\ [][NextEnrol]_vars

\* The attendance window: training rewrites encodings.json, the operator presses
\* "Refresh Data" while the recognition thread runs.
RegisteredStudents == CHOOSE stu \in StudentFiles : stu.exists

InitReload == Constructed(ReloadFiles, {RegisteredStudents}) /\ WindowOpened

NextReload ==
    \/ \E enc \in ReloadFiles : WriteEncodingsFile(enc)
    \/ RefreshRead
    \/ RefreshReset
    \/ RefreshAppend
    \/ start_recognition
    \/ \E q \in Queries : LoopFrame(q)
    \/ LoopCompare
    \/ LoopMeasure
    \/ LoopName
    \/ LoopRoll

SpecReload == InitReload /\ [][NextReload]_vars

\* The thresholds over the life of an engine: training rewrites encodings.json with
\* stores of 5, 6 and 10 embeddings, the engine reloads, calibrates, recognizes a frame,
\* selects its detector and reports its statistics.
TrainedFiles ==
    {enc \in EncodingFiles :
        enc.exists /\ TotalEncodings(enc.data) \in {5, 6, 10}
                   /\ Len(enc.data) \in {2, 3}}

InitThresholds == Constructed(TrainedFiles, {RegisteredStudents}) /\ NoWindow

NextThresholds ==
    \/ \E enc \in TrainedFiles : WriteEncodingsFile(enc)
    \/ \E write_ok \in BOOLEAN : load_encodings(write_ok)
    \/ \E write_ok \in BOOLEAN : auto_calibrate(write_ok)
    \/ /\ total_attempts < MaxAttempts
       /\ recognize_faces(Frame(<<Face(m, GoodRegion)>>), FALSE, 100)
    \/ adaptive_model_selection(100)
    \/ get_performance_stats

SpecThresholds == InitThresholds /\ [][NextThresholds]_vars

\* Calibration beside recognition: one thread calibrates the engine while another
\* recognizes a frame.
NextRace ==
    \/ CalibrateDistance
    \/ \E write_ok \in BOOLEAN : CalibrateConfidence(write_ok)
    \/ \E face \in Faces : MatchReadDistance(face)
    \/ MatchReadConfidence(100)

SpecRace == Init /\ [][NextRace]_vars

\* The attendance desk: the operator starts and stops recognition and refreshes the
\* data while the recognition threads mark the persons they recognize.
Enrolment == CHOOSE enc \in ReloadFiles : TRUE

InitAttend == Constructed({Enrolment}, {RegisteredStudents}) /\ WindowOpened

NextAttend ==
    \/ Tick
    \/ StartClicked
    \/ StopClicked
    \/ RefreshClicked
    \/ RefreshAssign
    \/ \E t \in 1..Len(workers), roll \in Visitors : WorkerFrame(t, roll)
    \/ \E t \in 1..Len(workers) : WorkerTest(t)
    \/ \E t \in 1..Len(workers), write_ok \in BOOLEAN : WorkerSave(t, write_ok)

SpecAttend == InitAttend /\ [][NextAttend]_vars

-----------------------------------------------------------------------------
(* Properties *)

\* the last call was recognize_faces on a frame it could read
Recognized == call.op = "recognize_faces" /\ call.frame.readable

\* the embedding of the i-th face of the frame of the last recognize_faces call
Query(i) == call.frame.faces[i].encoding

\* the distances from q to the stored embeddings
DistancesTo(q) == {Distance(known_encodings[k], q) : k \in 1..Len(known_encodings)}

\* the smallest of them
NearestDistance(q) == CHOOSE d \in DistancesTo(q) : \A e \in DistancesTo(q) : d <= e

\* the messages of the last call
Messages == {logged[k] : k \in 1..Len(logged)}

\* C1: the distance threshold is within [0.3, 0.6] in every state of the engine, whatever
\* the data files hold and however load_encodings and auto_calibrate are called.
C1_DistanceThresholdBounded ==
    face_distance_threshold >= 300 /\ face_distance_threshold <= 600

\* C1 witness: auto_calibrate has just updated the thresholds on a store whose optimal
\* threshold lies above 0.6, and left the distance threshold at 0.6.
C1_Witness ==
    /\ call.op = "auto_calibrate"
    /\ <<"Auto-calibration complete">> \in Messages
    /\ optimal_threshold(intra_class_distances(known_encodings, known_rolls)) > 600
    /\ face_distance_threshold = 600

\* C2: a face is recognized exactly when both gates pass: the distance to the nearest
\* stored embedding is at most face_distance_threshold and one minus that distance is at
\* least confidence_threshold; recognize_faces returns one result per face.
C2_AcceptIffBothGates ==
    Recognized =>
        /\ Len(ret) = Len(call.frame.faces)
        /\ \A i \in 1..Len(ret) :
              ret[i].recognized <=>
                  /\ known_encodings # <<>>
                  /\ NearestDistance(Query(i)) <= face_distance_threshold
                  /\ 1000 - NearestDistance(Query(i)) >= confidence_threshold

\* C2 witness: a face within the distance threshold is rejected by the confidence gate
\* alone.
C2_Witness ==
    /\ Recognized
    /\ known_encodings # <<>>
    /\ \E i \in 1..Len(ret) :
          /\ ~ret[i].recognized
          /\ NearestDistance(Query(i)) <= face_distance_threshold
          /\ 1000 - NearestDistance(Query(i)) < confidence_threshold

\* C3: a result that is not recognized carries no identity: its name is 'Unknown', its
\* roll_number None, its metadata empty, its confidence 0.0 and its distance infinite.
C3_RejectedNotSurfaced ==
    Recognized =>
        \A i \in 1..Len(ret) :
            ~ret[i].recognized =>
                /\ ret[i].name = "Unknown"
                /\ ret[i].roll_number = None
                /\ ret[i].metadata = EmptyDict
                /\ ret[i].confidence = 0
                /\ ret[i].distance = Infinity

\* C3 witness: a face is rejected although the store holds a best candidate, whose name
\* the log carries.
C3_Witness ==
    /\ Recognized
    /\ known_encodings # <<>>
    /\ \E i \in 1..Len(ret) :
          /\ ~ret[i].recognized
          /\ \E k \in 1..Len(known_names) :
                /\ Distance(known_encodings[k], Query(i)) = NearestDistance(Query(i))
                /\ <<"Unknown face - Best match", known_names[k]>> \in Messages

\* a step of auto_calibrate, of recognize_faces, of adaptive_model_selection
Calibrating == \E write_ok \in BOOLEAN : auto_calibrate(write_ok)
Recognizing ==
    \E frame \in Frames, return_quality \in BOOLEAN, t \in Latencies :
        recognize_faces(frame, return_quality, t)
Selecting == \E frame_count \in FrameCounts : adaptive_model_selection(frame_count)

\* the identities of the store, and the positions and the embeddings of one of them
Identities == {known_rolls[k] : k \in 1..Len(known_rolls)}
PositionsOf(roll) == {k \in 1..Len(known_rolls) : known_rolls[k] = roll}
EmbeddingsOf(roll) == {known_encodings[k] : k \in PositionsOf(roll)}

\* C4: a call of auto_calibrate on a store of fewer than 5 embeddings reports
\* insufficient data, leaves both thresholds as they were and writes no calibration
\* record.
C4_TooFewEmbeddingsKeepThresholds ==
    [][(Calibrating /\ Len(known_encodings) < 5) =>
          /\ face_distance_threshold' = face_distance_threshold
          /\ confidence_threshold' = confidence_threshold
          /\ calibration_file' = calibration_file
          /\ \E k \in 1..Len(logged') :
                logged'[k] = <<"Insufficient data for auto-calibration">>]_vars

\* C4 witness: auto_calibrate has reported insufficient data on a store of fewer than 5
\* embeddings that holds two identities, one of them with two embeddings.
C4_Witness ==
    /\ call.op = "auto_calibrate"
    /\ Len(known_encodings) > 0 /\ Len(known_encodings) < 5
    /\ Cardinality(Identities) > 1
    /\ \E r \in Identities : Cardinality(PositionsOf(r)) > 1
    /\ <<"Insufficient data for auto-calibration">> \in Messages
    /\ thresholds = <<400, 650>>

\* C5: a call of auto_calibrate on a store of at least 5 embeddings in which no identity
\* has two embeddings, or which holds a single identity, leaves both thresholds as they
\* were and writes no calibration record.
C5_EmptyDistanceSetKeepsThresholds ==
    [][(/\ Calibrating
        /\ Len(known_encodings) >= 5
        /\ \/ \A r \in Identities : Cardinality(PositionsOf(r)) < 2
           \/ Cardinality(Identities) = 1) =>
          /\ face_distance_threshold' = face_distance_threshold
          /\ confidence_threshold' = confidence_threshold
          /\ calibration_file' = calibration_file]_vars

\* C5 witness: auto_calibrate has run on a store of 5 embeddings of a single identity,
\* whose intra-class distances would have moved the threshold, and has not calibrated.
C5_Witness ==
    /\ call.op = "auto_calibrate"
    /\ Len(known_encodings) >= 5
    /\ Cardinality(Identities) = 1
    /\ <<"Auto-calibration complete">> \notin Messages
    /\ <<"Insufficient data for auto-calibration">> \notin Messages
    /\ Clamp(optimal_threshold(intra_class_distances(known_encodings, known_rolls)))
           # face_distance_threshold

\* an identity of three embeddings, no two more than 0.05 apart, around the centre c
ClusteredAround(roll, c) ==
    /\ Cardinality(PositionsOf(roll)) = 3
    /\ \A a, b \in EmbeddingsOf(roll) : Distance(a, b) <= 50
    /\ \A a \in EmbeddingsOf(roll) : Distance(a, c) <= 50

\* the store of the scenario: identity A ("101") around v, identity B ("102") around w,
\* v and w 0.9 apart
TwoClusters ==
    /\ Identities = {"101", "102"}
    /\ ClusteredAround("101", v)
    /\ ClusteredAround("102", w)
    /\ Distance(v, w) = 900

\* the thresholds of the engine are those a calibration on this store recorded
CalibratedOnStore ==
    /\ calibration_file.exists
    /\ calibration_file.data.calibration_stats.encodings_used = Len(known_encodings)
    /\ calibration_file.data.face_distance_threshold = face_distance_threshold
    /\ calibration_file.data.confidence_threshold = confidence_threshold

\* C6: on the two-cluster store, once calibrated, the distance threshold is within
\* [0.3, 0.6], a query equal to v is accepted as A with a confidence of at least
\* confidence_threshold, and a query equal to w is never accepted as A.
C6_ClustersEndToEnd ==
    (TwoClusters /\ CalibratedOnStore) =>
        /\ face_distance_threshold >= 300 /\ face_distance_threshold <= 600
        /\ Recognized =>
              \A i \in 1..Len(call.frame.faces) :
                  /\ Len(ret) >= i
                  /\ Query(i) = v =>
                        /\ ret[i].recognized
                        /\ ret[i].roll_number = "101"
                        /\ ret[i].name = "Alice"
                        /\ ret[i].confidence >= confidence_threshold
                  /\ Query(i) = w =>
                        /\ ret[i].roll_number # "101"
                        /\ ret[i].name # "Alice"

\* C6 witness: on the calibrated two-cluster store a frame showing v and then w has been
\* recognized.
C6_Witness ==
    /\ TwoClusters /\ CalibratedOnStore
    /\ Recognized
    /\ Len(call.frame.faces) = 2
    /\ Query(1) = v /\ Query(2) = w
    /\ ret[1].recognized /\ ret[2].recognized /\ ret[2].roll_number = "102"

\* C7: recognize_faces on an engine whose store is empty returns, for every face of the
\* frame, a result with recognized False and an infinite distance, and changes neither
\* successful_recognitions nor confidence_scores.
C7_EmptyStoreUnmatched ==
    [][(Recognizing /\ known_encodings = <<>>) =>
          /\ Len(ret') = Len(call'.frame.faces)
          /\ \A i \in 1..Len(ret') :
                ~ret'[i].recognized /\ ret'[i].distance = Infinity
          /\ successful_recognitions' = successful_recognitions
          /\ confidence_scores' = confidence_scores]_vars

\* C7 witness: an engine with an empty store has returned two unmatched results for a
\* frame of two faces.
C7_Witness ==
    /\ Recognized
    /\ known_encodings = <<>>
    /\ Len(call.frame.faces) = 2
    /\ Len(ret) = 2
    /\ ~ret[1].recognized /\ ~ret[2].recognized
    /\ ret[1].distance = Infinity

\* the average of the last 10 latencies, when there is one
LastTenAverage == Mean(LastTimes(processing_times))

\* C8, as claimed: at a call of adaptive_model_selection on a multiple of 100, with at
\* least 10 latencies recorded, an average of the last 10 above 0.5 s turns cnn into
\* hog and an average under 0.2 s turns hog into cnn.
C8_SwitchWithTenSamples ==
    [][(/\ Selecting
        /\ call'.frame_count % 100 = 0
        /\ Len(processing_times) >= 10) =>
          /\ (LastTenAverage > 500 /\ current_model = "cnn") => current_model' = "hog"
          /\ (LastTenAverage < 200 /\ current_model = "hog") => current_model' = "cnn"]_vars

\* C9: at a call of adaptive_model_selection on a multiple of 100, with at least 10
\* latencies recorded, the model is unchanged when the average of the last 10 lies in
\* [0.2 s, 0.5 s], when it is above 0.5 s and the model is hog, and when it is under
\* 0.2 s and the model is cnn; the model is always hog or cnn.
C9_Hysteresis ==
    /\ [](current_model \in {"hog", "cnn"})
    /\ [][(/\ Selecting
           /\ call'.frame_count % 100 = 0
           /\ Len(processing_times) >= 10
           /\ \/ LastTenAverage >= 200 /\ LastTenAverage <= 500
              \/ LastTenAverage > 500 /\ current_model = "hog"
              \/ LastTenAverage < 200 /\ current_model = "cnn") =>
             current_model' = current_model]_vars

\* C9 witness: adaptive_model_selection has evaluated the latencies, found their
\* average at the upper end of the band, and left the cnn model.
C9_Witness ==
    /\ call.op = "adaptive_model_selection"
    /\ AtCheckpoint(call.frame_count, processing_times)
    /\ LastTenAverage = 500
    /\ current_model = "cnn"

\* C10: current_model changes only in a call of adaptive_model_selection whose count is
\* a multiple of 100: not in a call with another count, whatever the latencies, and not
\* in recognize_faces, load_encodings or auto_calibrate.
C10_OnlyAtCheckpoint ==
    [][current_model' # current_model =>
          Selecting /\ call'.frame_count % 100 = 0]_vars

\* C10 witness: adaptive_model_selection has been called off the checkpoint with more
\* than 10 latencies whose average is under 0.2 s, and the model is still hog.
C10_Witness ==
    /\ call.op = "adaptive_model_selection"
    /\ call.frame_count % 100 # 0
    /\ Len(processing_times) > 10
    /\ LastTenAverage < 200
    /\ current_model = "hog"

\* C11, as claimed: a latency sample is recorded for every call of recognize_faces, so
\* the number of processing_times equals total_attempts in every state.
C11_LatencyPerAttempt == Len(processing_times) = total_attempts

\* the positions of the accepted results of a list of results
AcceptedPositions(results) == {i \in 1..Len(results) : results[i].recognized}

\* C12: confidence_scores has one element per successful recognition in every state; a
\* recognize_faces call adds one success and one confidence per accepted face, each at
\* least the confidence_threshold of that moment, and keeps the earlier scores; no other
\* operation changes either.
C12_ConfidencePerAcceptance ==
    /\ [](Len(confidence_scores) = successful_recognitions)
    /\ [][/\ (successful_recognitions' # successful_recognitions
              \/ confidence_scores' # confidence_scores) => Recognizing
          /\ Recognizing =>
                /\ successful_recognitions' =
                       successful_recognitions + Cardinality(AcceptedPositions(ret'))
                /\ Len(confidence_scores') =
                       Len(confidence_scores) + Cardinality(AcceptedPositions(ret'))
                /\ \A k \in 1..Len(confidence_scores') :
                      IF k <= Len(confidence_scores)
                      THEN confidence_scores'[k] = confidence_scores[k]
                      ELSE confidence_scores'[k] >= confidence_threshold]_vars

\* C12 witness: one call has accepted the two faces of a frame and recorded two
\* successes and two confidences.
C12_Witness ==
    /\ Recognized
    /\ Cardinality(AcceptedPositions(ret)) = 2
    /\ successful_recognitions >= 2
    /\ Len(confidence_scores) = successful_recognitions
    /\ total_attempts < successful_recognitions

\* a step of get_performance_stats
GettingStats == call'.op = "get_performance_stats" /\ get_performance_stats

\* C13: get_performance_stats leaves recognition_stats as it was and returns a
\* recognition_rate that is successful_recognitions / total_attempts (to the thousandth)
\* when something was attempted and 0.0 otherwise.
C13_RecognitionRate ==
    [][GettingStats =>
          /\ recognition_stats' = recognition_stats
          /\ IF total_attempts > 0
             THEN /\ ret'.recognition_rate * total_attempts <= successful_recognitions * 1000
                  /\ (ret'.recognition_rate + 1) * total_attempts
                         > successful_recognitions * 1000
             ELSE ret'.recognition_rate = 0]_vars

\* C13 witness: the statistics were asked after an attempt that succeeded, and report
\* a positive rate beside the engine's own counters.
C13_Witness ==
    /\ call.op = "get_performance_stats"
    /\ total_attempts > 0
    /\ successful_recognitions > 0
    /\ ret.recognition_rate > 0
    /\ ret.total_attempts = total_attempts
    /\ ret.min_confidence >= confidence_threshold

\* a step of load_encodings
Loading == call'.op = "load_encodings" /\ \E write_ok \in BOOLEAN : load_encodings(write_ok)

\* an entry of encodings.json whose roll students.json knows, with a name
WellFormed(entry, stu) ==
    entry.roll \in DOMAIN stu /\ "name" \in DOMAIN stu[entry.roll]

\* C14, as claimed: when load_encodings returns, every embedding of every well-formed
\* entry of the files is in the store under its roll, whatever the other entries are.
C14_MalformedEntrySkipped ==
    [][(Loading /\ encodings_file.exists /\ students_file.exists) =>
          \A k \in 1..Len(encodings_file.data) :
              WellFormed(encodings_file.data[k], students_file.data) =>
                  \A n \in 1..Len(encodings_file.data[k].encodings) :
                      \E j \in 1..Len(known_encodings') :
                          /\ known_encodings'[j] = encodings_file.data[k].encodings[n]
                          /\ known_rolls'[j] = encodings_file.data[k].roll]_vars

\* C15, as claimed: every embedding of the store has the length D.
C15_StoreSharesDimension ==
    \A k \in 1..Len(known_encodings) : Len(known_encodings[k]) = Dim

\* C16, as claimed: when auto_calibrate could not write its record, its caller is told
\* (the call returns something, where a calibration that saved its record returns
\* None), and the engine holds the thresholds that calibration computed.
C16_WriteFailureSurfaced ==
    (call.op = "auto_calibrate" /\ <<"Failed to save calibration results">> \in Messages) =>
        /\ ret # None
        /\ face_distance_threshold =
               Clamp(optimal_threshold(intra_class_distances(known_encodings, known_rolls)))
        /\ confidence_threshold = 1000 - face_distance_threshold - 100

\* the lists a completed load of some version of encodings.json holds
Snapshots == {AppLists(AppItems(f.data, students_file.data)) : f \in ReloadFiles}

\* C17, as claimed: the recognition thread works on one complete store.  It never
\* fails on an index, the embeddings it measures against are those of a completed
\* load, and the name and the roll it reports belong to one person, whose embedding is
\* the one it matched.
C17_ConsistentView ==
    /\ loop.pc # "crashed"
    /\ loop.pc \in {"354", "359", "done"} =>
          \E snapshot \in Snapshots : loop.seen = snapshot.known_encodings
    /\ (loop.pc = "done" /\ loop.roll # "Unknown") =>
          \E snapshot \in Snapshots :
              \E k \in 1..Len(snapshot.known_rolls) :
                  /\ snapshot.known_rolls[k] = loop.roll
                  /\ NameOf(snapshot.known_names[k]) = loop.name
                  /\ Distance(snapshot.known_encodings[k], loop.q) = loop.distance

\* the last call was assess_image_quality on a crop of zero width or zero height
AssessedEmpty ==
    /\ call.op = "assess_image_quality"
    /\ (call.region.width = 0 \/ call.region.height = 0)

MatchOutcomeOf(result) ==
    <<result.recognized, result.name, result.roll_number, result.distance,
      result.confidence, result.metadata>>

\* C19: the match outcome of every face of a recognized frame is the one the same
\* embedding gets, on the same store and thresholds, in a crop of any other quality and
\* with or without the quality report: a low score flags a face and rejects nothing.
C19_QualityInformational ==
    (Recognized /\ call.frame.faces # <<>>) =>
        \A i \in 1..Len(call.frame.faces) :
            \A region \in {GoodRegion, PoorRegion}, return_quality \in BOOLEAN :
                /\ Len(ret) >= i
                /\ MatchOutcomeOf(ret[i]) =
                       MatchOutcomeOf(
                           FaceOutcome(Face(Query(i), region), i - 1, return_quality,
                                       known_encodings, known_names, known_rolls,
                                       known_metadata, face_distance_threshold,
                                       confidence_threshold).result)

\* C19 witness: a face whose quality score is under quality_threshold was flagged in
\* the log and recognized all the same.
C19_Witness ==
    /\ Recognized
    /\ call.return_quality
    /\ Len(ret) >= 1
    /\ ret[1].quality.overall_score < 700
    /\ <<"Low quality face detected">> \in Messages
    /\ ret[1].recognized

\* C20: a calibration that updates the thresholds leaves confidence_threshold at
\* 1.0 - face_distance_threshold - 0.1, within [0.3, 0.6]; and whenever the thresholds
\* stand in that relation, a face is recognized exactly when its nearest stored
\* embedding is within face_distance_threshold.
C20_ConfidenceFollowsDistance ==
    /\ [][((call'.op = "auto_calibrate" \/ call'.op = "load_encodings")
           /\ (Calibrating \/ Loading)
           /\ \E k \in 1..Len(logged') : logged'[k] = <<"Auto-calibration complete">>) =>
             /\ confidence_threshold' = 1000 - face_distance_threshold' - 100
             /\ confidence_threshold' >= 300 /\ confidence_threshold' <= 600]_vars
    /\ []((Recognized /\ confidence_threshold = 1000 - face_distance_threshold - 100) =>
             \A i \in 1..Len(call.frame.faces) :
                 /\ Len(ret) >= i
                 /\ ret[i].recognized <=>
                        /\ known_encodings # <<>>
                        /\ NearestDistance(Query(i)) <= face_distance_threshold)

\* C20 witness: after a calibration that moved the thresholds to 0.445 and 0.455, a
\* face within the distance threshold but farther than the default 0.4 was recognized.
C20_Witness ==
    /\ Recognized
    /\ calibration_file.exists
    /\ face_distance_threshold > 400 /\ face_distance_threshold < 600
    /\ confidence_threshold = 1000 - face_distance_threshold - 100
    /\ \E i \in 1..Len(ret) : ret[i].recognized /\ ret[i].distance > 300

\* a step of auto_calibrate, called directly or by load_encodings, that updated the
\* thresholds
CalibrationCompleted ==
    /\ call'.op \in {"auto_calibrate", "load_encodings"}
    /\ Calibrating \/ Loading
    /\ \E k \in 1..Len(logged') : logged'[k] = <<"Auto-calibration complete">>

\* the pairs of positions of the calibrated store that hold one identity
SamePersonPairs ==
    {p \in (1..Len(known_rolls')) \X (1..Len(known_rolls')) :
        p[1] < p[2] /\ known_rolls'[p[1]] = known_rolls'[p[2]]}

\* the distance of such a pair
PairDistance(p) == Distance(known_encodings'[p[1]], known_encodings'[p[2]])

RECURSIVE SumOfDistances(_)
\* the sum of the distances of a set of pairs
SumOfDistances(pairs) ==
    IF pairs = {} THEN 0
    ELSE LET p == CHOOSE x \in pairs : TRUE
         IN  PairDistance(p) + SumOfDistances(pairs \ {p})

RECURSIVE SumOfSquares(_, _, _)
\* the sum of (n * distance - total)^2 over a set of pairs
SumOfSquares(pairs, n, total) ==
    IF pairs = {} THEN 0
    ELSE LET p == CHOOSE x \in pairs : TRUE
         IN  (n * PairDistance(p) - total) * (n * PairDistance(p) - total)
             + SumOfSquares(pairs \ {p}, n, total)

\* the calibrated store with every embedding of one identity moved by d along every
\* axis: the intra-class distances stay, the inter-class distances change
MovedStore(roll, d) ==
    [k \in 1..Len(known_encodings') |->
        IF known_rolls'[k] = roll
        THEN [i \in 1..Len(known_encodings'[k]) |-> known_encodings'[k][i] + d]
        ELSE known_encodings'[k]]

StoredUnder(roll) ==
    LET at == SelectSeq([k \in 1..Len(known_rolls') |-> k],
                        LAMBDA k : known_rolls'[k] = roll)
    IN  [n \in 1..Len(at) |-> known_encodings'[at[n]]]

\* the store after the step holds the embeddings of the identities that the two files
\* have in common, and nothing else
HoldsCurrentInput ==
    /\ Len(known_rolls') = Len(known_encodings')
    /\ \A k \in 1..Len(known_rolls') :
          \E n \in 1..Len(encodings_file.data) :
              /\ encodings_file.data[n].roll = known_rolls'[k]
              /\ known_rolls'[k] \in DOMAIN students_file.data
    /\ \A n \in 1..Len(encodings_file.data) :
          encodings_file.data[n].roll \in DOMAIN students_file.data =>
              StoredUnder(encodings_file.data[n].roll) = encodings_file.data[n].encodings

\* the store after the step is empty
StoreEmptied ==
    /\ known_encodings' = <<>> /\ known_names' = <<>>
    /\ known_rolls' = <<>> /\ known_metadata' = <<>>

\* the load meets a record without a name under a roll that has embeddings
MeetsNamelessRecord ==
    \E n \in 1..Len(encodings_file.data) :
        /\ encodings_file.data[n].roll \in DOMAIN students_file.data
        /\ encodings_file.data[n].encodings # <<>>
        /\ ~WellFormed(encodings_file.data[n], students_file.data)

Enrolled ==
    /\ call'.op = "process_student_images"
    /\ ret' = TRUE
    /\ \E save_ok \in BOOLEAN, metadata_ok \in BOOLEAN, write_ok \in BOOLEAN :
          process_student_images(call'.student_roll, call'.encodings, save_ok,
                                 metadata_ok, write_ok)

\* C23, as claimed: when process_student_images has saved new embeddings for a
\* registered student and reloaded, the store holds every embedding it held before,
\* under the same roll, and the new ones under the student's roll.
C23_EnrolmentAppends ==
    [][(/\ Enrolled
        /\ students_file.exists
        /\ call'.student_roll \in DOMAIN students_file.data) =>
          /\ \A k \in 1..Len(known_encodings) :
                \E j \in 1..Len(known_encodings') :
                    /\ j <= Len(known_rolls')
                    /\ known_encodings'[j] = known_encodings[k]
                    /\ known_rolls'[j] = known_rolls[k]
          /\ \A n \in 1..Len(call'.encodings) :
                \E j \in 1..Len(known_encodings') :
                    /\ j <= Len(known_rolls')
                    /\ known_encodings'[j] = call'.encodings[n]
                    /\ known_rolls'[j] = call'.student_roll]_vars

\* C24, as claimed: successful_recognitions never exceeds total_attempts, so the
\* recognition_rate get_performance_stats reports is within [0, 1].
C24_SuccessesWithinAttempts ==
    /\ successful_recognitions <= total_attempts
    /\ call.op = "get_performance_stats" =>
          ret.recognition_rate >= 0 /\ ret.recognition_rate <= 1000

\* thread t calls save_attendance in this step
Saving(t) == workers[t].pc = "368" /\ workers'[t].pc = "307"

\* the file of the day holds a record for a roll
OnFile(roll) == attendance_file.exists /\ roll \in DOMAIN attendance_file.data

\* C25, as claimed: save_attendance is never called for a roll that has a record of
\* today, in memory or on file, and a record on file is never replaced: the first
\* recorded time stays.
C25_MarkedOnce ==
    /\ [][\A t \in 1..Len(workers) :
              Saving(t) => /\ workers[t].roll \notin DOMAIN today_attendance
                           /\ ~OnFile(workers[t].roll)]_vars
    /\ [][attendance_file.exists =>
              \A roll \in DOMAIN attendance_file.data :
                  /\ attendance_file'.exists
                  /\ roll \in DOMAIN attendance_file'.data
                  /\ attendance_file'.data[roll] = attendance_file.data[roll]]_vars

\* C26, as claimed: a thread started before the latest start_recognition, hence stopped
\* by a stop_recognition since, never takes up another frame.
C26_SingleWorker ==
    [][\A t \in 1..Len(workers) :
           (t < Len(workers) /\ workers[t].pc = "307") => workers'[t].pc # "367"]_vars

\* C27, as claimed: when save_attendance fails to write the file, the roll is not in
\* today_attendance afterwards.
C27_FailedSaveForgotten ==
    [][\A t \in 1..Len(workers) :
           (Saving(t) /\ workers'[t].status = "Failed to save attendance") =>
               workers[t].roll \notin DOMAIN today_attendance']_vars

\* the threshold pairs the calibrations have published: the pair in force before the
\* calibration in progress or completed, and the pair it leaves
PublishedPairs ==
    IF calibrating.pc = "158" THEN {<<face_distance_threshold, confidence_threshold>>}
    ELSE {calibrating.before, calibrating.after}

\* C28, as claimed: the pair of thresholds an acceptance test has read, when it read
\* both, is a pair some calibration left, never one value of each.
C28_PairNeverMixed ==
    (matching.pc = "returned"
         /\ FaceDistances(known_encodings, matching.face.encoding)
                [ArgMin(FaceDistances(known_encodings, matching.face.encoding))]
            <= matching.fdt) =>
        <<matching.fdt, matching.ct>> \in PublishedPairs

\* the four lists after the step have one length
ListsAligned ==
    /\ Len(known_names') = Len(known_encodings')
    /\ Len(known_rolls') = Len(known_encodings')
    /\ Len(known_metadata') = Len(known_encodings')

\* entry i of the four lists after the step belongs to one identity of the files: its
\* embedding is the one the file holds for its roll at its encoding_index, its name and
\* role are those of the record of that roll
OfOneIdentity(i) ==
    /\ encodings_file.exists /\ students_file.exists
    /\ known_rolls'[i] \in DOMAIN students_file.data
    /\ known_names'[i] = students_file.data[known_rolls'[i]]["name"]
    /\ known_metadata'[i].role = Get(students_file.data[known_rolls'[i]], "role", "student")
    /\ \E n \in 1..Len(encodings_file.data) :
          /\ encodings_file.data[n].roll = known_rolls'[i]
          /\ known_metadata'[i].encoding_index < Len(encodings_file.data[n].encodings)
          /\ encodings_file.data[n].encodings[known_metadata'[i].encoding_index + 1]
                 = known_encodings'[i]

\* C29: when load_encodings returns, normally or after an error inside it, the four
\* lists of the store have one length and entry i of each belongs to the same identity.
C29_ListsIndexAligned ==
    /\ [](/\ Len(known_names) = Len(known_encodings)
          /\ Len(known_rolls) = Len(known_encodings)
          /\ Len(known_metadata) = Len(known_encodings))
    /\ [][Loading =>
             /\ ListsAligned
             /\ \A i \in 1..Len(known_encodings') : OfOneIdentity(i)]_vars

\* C29 witness: load_encodings has failed on a record without a name, after embeddings
\* of an earlier roll of the file were appended, and returned with four empty lists.
C29_Witness ==
    /\ call.op = "load_encodings"
    /\ <<"Error loading encodings">> \in Messages
    /\ encodings_file.exists /\ Len(encodings_file.data) > 1
    /\ WellFormed(encodings_file.data[1], students_file.data)
    /\ encodings_file.data[1].encodings # <<>>
    /\ store = <<<<>>, <<>>, <<>>, <<>>>>

\* C30: the thresholds change only in a step of auto_calibrate that completes a
\* calibration, which load_encodings reaches only with at least 10 embeddings loaded; a
\* load of fewer leaves the thresholds and the calibration record as they were, and so
\* do recognize_faces, adaptive_model_selection and get_performance_stats.
C30_ThresholdsChangeOnlyByCalibration ==
    /\ [][thresholds' # thresholds =>
             /\ CalibrationCompleted
             /\ call'.op = "load_encodings" => Len(known_encodings') >= 10]_vars
    /\ [][(Loading /\ Len(known_encodings') < 10) =>
             /\ thresholds' = thresholds
             /\ calibration_file' = calibration_file]_vars
    /\ [][(Recognizing \/ Selecting \/ GettingStats) => thresholds' = thresholds]_vars

\* C30 witness: load_encodings has loaded 6 embeddings of two identities, on which
\* auto_calibrate would set another distance threshold, and the engine still holds the
\* thresholds calibrated on an earlier store.
C30_Witness ==
    /\ call.op = "load_encodings"
    /\ Len(known_encodings) = 6
    /\ Cardinality(Identities) = 2
    /\ thresholds = <<445, 455>>
    /\ Clamp(optimal_threshold(intra_class_distances(known_encodings, known_rolls))) # 445

====
